---- MODULE Spec2Model ----
(***************************************************************************)
(* Brizy Cloud Cache Generator: the visit sequencer of src/src/App.tsx.    *)
(*                                                                         *)
(* The React component is modelled as a state machine.  One action is one  *)
(* browser event (a click, a change event, a FileReader or fetch          *)
(* completion, a timer expiry): the handler runs against the values of    *)
(* the render it was created in, its state updates are batched, the       *)
(* component re-renders and the two effects run when their dependency     *)
(* list changed.  A handler is a function from the record of component    *)
(* state to the record after its updates; Render applies the effects.     *)
(*                                                                         *)
(* sitemapContent and sitemapUrl are written but never read by the        *)
(* sequencer and are left out.                                             *)
(***************************************************************************)
EXTENDS Integers, Sequences, FiniteSets, TLC

(* ---- bounds of the model ---- *)
MaxLen == 2
EtaMaxLen == 3

(* ---- program constants ---- *)
InitialTimeDelay == 30
MinDelay == 20

Urls == {"a", "b"}
(* What parseInt yields: NaN, or an integer.                               *)
NaN == [isNaN |-> TRUE]
Num(n) == [isNaN |-> FALSE, n |-> n]
FetchError == "Failed to fetch sitemap. Please check the URL and try again."

(* A sitemap document, abstracted to the text of its <loc> elements in     *)
(* document order.                                                         *)
Contents == UNION {[1..n -> Urls] : n \in 0..MaxLen}

(* The values parseInt(e.target.value) is given to yield.                  *)
DelayInputs == {NaN, Num(MinDelay - 1), Num(MinDelay)}

VARIABLES
  urls,                 \* useState<SitemapUrl[]>
  isProcessing,
  currentIndex,         \* 0-based, -1 before the first visit
  isPaused,
  isLoading,
  error,
  timeDelay,
  showPermissionDialog,
  nextPageCountdown,
  estimatedTimeLeft,
  timer,                \* the pending timeouts: the closures of processNextUrl they will call
  countdownTimer,       \* the number of running intervals
  elapsed,              \* interval ticks since the timers were last armed
  opened,               \* the URLs handed to window.open by the last event
  lastEvent,            \* history: the last event, its input and the currentIndex it found
  runVisits,            \* history: the events of the current uninterrupted run that visit
  cleanRun,             \* history: confirmed from Idle and not interrupted since
  awaitingConfirm       \* history: the list was loaded while processing, and not confirmed since

vars == <<urls, isProcessing, currentIndex, isPaused, isLoading, error, timeDelay,
          showPermissionDialog, nextPageCountdown, estimatedTimeLeft, timer,
          countdownTimer, elapsed, opened, lastEvent, runVisits, cleanRun,
          awaitingConfirm>>

(* The component as the handlers of the current render see it.             *)
Now ==
  [urls |-> urls, isProcessing |-> isProcessing, currentIndex |-> currentIndex,
   isPaused |-> isPaused, isLoading |-> isLoading, error |-> error,
   timeDelay |-> timeDelay, showPermissionDialog |-> showPermissionDialog,
   nextPageCountdown |-> nextPageCountdown, estimatedTimeLeft |-> estimatedTimeLeft,
   timer |-> timer, countdownTimer |-> countdownTimer, elapsed |-> elapsed,
   opened |-> <<>>]

(* urls[i] of the code is At(u, i): the code counts from 0.                *)
At(u, i) == u[i + 1]

parseSitemap(content) ==
  [k \in 1..Len(content) |-> [url |-> content[k], visited |-> FALSE]]

(* Mutants of handleFileUpload: the index is kept; the index goes to 0.    *)
handleFileUpload_KeepIndex(s, content) ==
  [s EXCEPT !.urls = parseSitemap(content), !.error = ""]

handleFileUpload_IndexZero(s, content) ==
  [s EXCEPT !.urls = parseSitemap(content), !.currentIndex = 0, !.error = ""]

(* reader.onload of handleFileUpload.                                      *)
handleFileUpload(s, content) ==
  [s EXCEPT !.urls = parseSitemap(content), !.currentIndex = -1, !.error = ""]

(* fetchSitemap up to its first await.                                     *)
fetchSitemapBegin(s) ==
  [s EXCEPT !.isLoading = TRUE, !.error = ""]

(* Mutant of fetchSitemapOk: the parsed records are added to the list.     *)
fetchSitemapOk_Merge(s, content) ==
  [s EXCEPT !.urls = s.urls \o parseSitemap(content), !.currentIndex = -1,
            !.isLoading = FALSE]

(* fetchSitemap after a response with response.ok.                         *)
fetchSitemapOk(s, content) ==
  [s EXCEPT !.urls = parseSitemap(content), !.currentIndex = -1, !.isLoading = FALSE]

(* fetchSitemap after a rejected fetch or a response that is not ok.       *)
fetchSitemapFail(s) ==
  [s EXCEPT !.error = FetchError, !.urls = <<>>, !.isLoading = FALSE]

(* Mutants of handleTimeDelayChange: the minimum is not checked; a change  *)
(* is accepted while processing.                                           *)
handleTimeDelayChange_WhileProcessing(s, value) ==
  IF ~value.isNaN /\ value.n >= MinDelay
  THEN [s EXCEPT !.timeDelay = value.n]
  ELSE s

handleTimeDelayChange_NoMinimum(s, value) ==
  IF ~s.isProcessing /\ ~value.isNaN
  THEN [s EXCEPT !.timeDelay = value.n]
  ELSE s

handleTimeDelayChange(s, value) ==
  IF ~s.isProcessing /\ ~value.isNaN /\ value.n >= MinDelay
  THEN [s EXCEPT !.timeDelay = value.n]
  ELSE s

(* What a function created by a render reads of that render.              *)
Closure(s) == [currentIndex |-> s.currentIndex, urls |-> s.urls, isPaused |-> s.isPaused]

(* Mutant of processNextUrl: the branch that ends processing is missing.   *)
processNextUrl_NoCompletion(s, c) ==
  IF c.currentIndex < Len(c.urls) - 1 /\ ~c.isPaused
  THEN LET nextIndex == c.currentIndex + 1
       IN [s EXCEPT !.currentIndex = nextIndex,
                    !.opened = Append(s.opened, At(c.urls, nextIndex).url),
                    !.urls = [k \in 1..Len(s.urls) |->
                                IF k - 1 = nextIndex
                                THEN [s.urls[k] EXCEPT !.visited = TRUE]
                                ELSE s.urls[k]]]
  ELSE s

(* processNextUrl: c holds the currentIndex, urls and isPaused of the      *)
(* render that created the function; s is the state its updates apply to   *)
(* (setUrls takes an updater, so it maps the pending list, not c.urls).    *)
processNextUrl(s, c) ==
  IF c.currentIndex < Len(c.urls) - 1 /\ ~c.isPaused
  THEN LET nextIndex == c.currentIndex + 1
       IN [s EXCEPT !.currentIndex = nextIndex,
                    !.opened = Append(s.opened, At(c.urls, nextIndex).url),
                    !.urls = [k \in 1..Len(s.urls) |->
                                IF k - 1 = nextIndex
                                THEN [s.urls[k] EXCEPT !.visited = TRUE]
                                ELSE s.urls[k]]]
  ELSE IF c.currentIndex = Len(c.urls) - 1
       THEN [s EXCEPT !.isProcessing = FALSE]
       ELSE s

(* Mutant of startProcessing: processing starts without the dialog.       *)
startProcessing_NoDialog(s) ==
  [s EXCEPT !.isProcessing = TRUE]

startProcessing(s) ==
  [s EXCEPT !.showPermissionDialog = TRUE]

cancelDialog(s) ==
  [s EXCEPT !.showPermissionDialog = FALSE]

(* Mutant of confirmStart: the first visit is left to the timer.           *)
confirmStart_NoFirstVisit(s) ==
  [s EXCEPT !.showPermissionDialog = FALSE, !.isProcessing = TRUE, !.isPaused = FALSE]

confirmStart(s) ==
  LET s1 == [s EXCEPT !.showPermissionDialog = FALSE, !.isProcessing = TRUE,
                      !.isPaused = FALSE]
  IN IF s.currentIndex = -1 THEN processNextUrl(s1, Closure(s)) ELSE s1

togglePause(s) ==
  [s EXCEPT !.isPaused = ~s.isPaused]

(* Mutants of resetProcess: the countdown is not cleared; the pause flag   *)
(* is not cleared.                                                         *)
resetProcess_KeepPaused(s) ==
  [s EXCEPT !.urls = [k \in 1..Len(s.urls) |-> [s.urls[k] EXCEPT !.visited = FALSE]],
            !.currentIndex = -1, !.isProcessing = FALSE,
            !.estimatedTimeLeft = "", !.nextPageCountdown = 0]

resetProcess_KeepCountdown(s) ==
  [s EXCEPT !.urls = [k \in 1..Len(s.urls) |-> [s.urls[k] EXCEPT !.visited = FALSE]],
            !.currentIndex = -1, !.isProcessing = FALSE, !.isPaused = FALSE,
            !.estimatedTimeLeft = ""]

resetProcess(s) ==
  [s EXCEPT !.urls = [k \in 1..Len(s.urls) |-> [s.urls[k] EXCEPT !.visited = FALSE]],
            !.currentIndex = -1, !.isProcessing = FALSE, !.isPaused = FALSE,
            !.estimatedTimeLeft = "", !.nextPageCountdown = 0]

(* A pending setTimeout(processNextUrl, timeDelay * 1000): the function's  *)
(* closure and the delay it was armed with, in seconds.                    *)
Timeout(s) ==
  [currentIndex |-> s.currentIndex, urls |-> s.urls, isPaused |-> s.isPaused,
   delay |-> s.timeDelay]

(* The dependency list of both effects.                                    *)
Deps(s) == <<s.currentIndex, s.isProcessing, s.isPaused, Len(s.urls), s.timeDelay>>

(* Mutant of stepTimerEffect: the effect returns no cleanup.               *)
stepTimerEffect_NoCleanup(prev, s) ==
  IF Deps(prev) = Deps(s)
  THEN s
  ELSE IF s.isProcessing /\ ~s.isPaused /\ s.currentIndex < Len(s.urls) - 1
       THEN [s EXCEPT !.nextPageCountdown = s.timeDelay,
                      !.countdownTimer = @ + 1,
                      !.timer = @ \cup {Timeout(s)},
                      !.elapsed = 0]
       ELSE s

(* The first useEffect: when a dependency changed, the cleanup of the      *)
(* previous run clears both handles and the body re-arms them.             *)
stepTimerEffect(prev, s) ==
  IF Deps(prev) = Deps(s)
  THEN s
  ELSE LET cleared == [s EXCEPT !.timer = {}, !.countdownTimer = 0]
       IN IF s.isProcessing /\ ~s.isPaused /\ s.currentIndex < Len(s.urls) - 1
          THEN [cleared EXCEPT !.nextPageCountdown = s.timeDelay,
                               !.countdownTimer = @ + 1,
                               !.timer = @ \cup {Timeout(s)},
                               !.elapsed = 0]
          ELSE cleared

(* a % n of JavaScript for n > 0: the sign of the dividend.                *)
jsRem(a, n) == IF a >= 0 THEN a % n ELSE -((-a) % n)

(* Mutant of formatTime: the minutes are not reduced by the hours.         *)
formatTime_MinutesOfTotal(totalSeconds) ==
  LET hours == totalSeconds \div 3600
      minutes == totalSeconds \div 60
      seconds == jsRem(totalSeconds, 60)
      h == IF hours > 0 THEN <<ToString(hours) \o "h">> ELSE <<>>
      m == IF minutes > 0 THEN <<ToString(minutes) \o "m">> ELSE <<>>
      sec == IF seconds > 0 THEN <<ToString(seconds) \o "s">> ELSE <<>>
      parts == h \o m \o sec
  IN IF Len(parts) = 0 THEN ""
     ELSE IF Len(parts) = 1 THEN parts[1]
     ELSE IF Len(parts) = 2 THEN parts[1] \o " " \o parts[2]
     ELSE parts[1] \o " " \o parts[2] \o " " \o parts[3]

formatTime(totalSeconds) ==
  LET hours == totalSeconds \div 3600
      minutes == jsRem(totalSeconds, 3600) \div 60
      seconds == jsRem(totalSeconds, 60)
      h == IF hours > 0 THEN <<ToString(hours) \o "h">> ELSE <<>>
      m == IF minutes > 0 THEN <<ToString(minutes) \o "m">> ELSE <<>>
      sec == IF seconds > 0 THEN <<ToString(seconds) \o "s">> ELSE <<>>
      parts == h \o m \o sec
  IN IF Len(parts) = 0 THEN ""
     ELSE IF Len(parts) = 1 THEN parts[1]
     ELSE IF Len(parts) = 2 THEN parts[1] \o " " \o parts[2]
     ELSE parts[1] \o " " \o parts[2] \o " " \o parts[3]

(* The second useEffect.                                                   *)
etaEffect(prev, s) ==
  IF Deps(prev) = Deps(s)
  THEN s
  ELSE IF s.isProcessing /\ ~s.isPaused
       THEN [s EXCEPT !.estimatedTimeLeft =
                        formatTime((Len(s.urls) - (s.currentIndex + 1)) * s.timeDelay)]
       ELSE [s EXCEPT !.estimatedTimeLeft = ""]

(* The render that follows a batch of updates, with its effects; prev is   *)
(* the render before it.                                                   *)
RenderFrom(prev, s) == etaEffect(prev, stepTimerEffect(prev, s))

Render(s) == RenderFrom(Now, s)

Commit(s) ==
  /\ urls' = s.urls
  /\ isProcessing' = s.isProcessing
  /\ currentIndex' = s.currentIndex
  /\ isPaused' = s.isPaused
  /\ isLoading' = s.isLoading
  /\ error' = s.error
  /\ timeDelay' = s.timeDelay
  /\ showPermissionDialog' = s.showPermissionDialog
  /\ nextPageCountdown' = s.nextPageCountdown
  /\ estimatedTimeLeft' = s.estimatedTimeLeft
  /\ timer' = s.timer
  /\ countdownTimer' = s.countdownTimer
  /\ elapsed' = s.elapsed
  /\ opened' = s.opened

NoArg == <<>>
Event(name, arg) ==
  lastEvent' = [name |-> name, index |-> currentIndex, arg |-> arg]

Interrupt == runVisits' = <<>> /\ cleanRun' = FALSE
Observe == UNCHANGED <<runVisits, cleanRun>>

(* A load replaces the list: the new list waits for a confirm if the load  *)
(* completed while processing.                                             *)
Loaded == awaitingConfirm' = isProcessing
Confirmed == awaitingConfirm' = FALSE
NotLoaded == UNCHANGED awaitingConfirm

(* One entry per visiting event: who ran it, the index it left, what it opened. *)
Visit(by, s) == <<[by |-> by, index |-> s.currentIndex, opened |-> s.opened]>>

Init ==
  /\ urls = <<>>
  /\ isProcessing = FALSE
  /\ currentIndex = -1
  /\ isPaused = FALSE
  /\ isLoading = FALSE
  /\ error = ""
  /\ timeDelay = InitialTimeDelay
  /\ showPermissionDialog = FALSE
  /\ nextPageCountdown = 0
  /\ estimatedTimeLeft = ""
  /\ timer = {}
  /\ countdownTimer = 0
  /\ elapsed = 0
  /\ opened = <<>>
  /\ lastEvent = [name |-> "mount", index |-> -1, arg |-> NoArg]
  /\ runVisits = <<>>
  /\ cleanRun = FALSE
  /\ awaitingConfirm = FALSE

(* ---- events ---- *)

FileLoaded ==
  \E content \in Contents :
    /\ Commit(Render(handleFileUpload(Now, content)))
    /\ Event("file", content)
    /\ Interrupt
    /\ Loaded

(* The Fetch button is disabled while isLoading.                           *)
HandleUrlSubmit ==
  /\ ~isLoading
  /\ Commit(Render(fetchSitemapBegin(Now)))
  /\ Event("submit", NoArg)
  /\ Observe
  /\ NotLoaded

FetchOk ==
  /\ isLoading
  /\ \E content \in Contents :
       /\ Commit(Render(fetchSitemapOk(Now, content)))
       /\ Event("fetchOk", content)
  /\ Interrupt
  /\ Loaded

FetchFail ==
  /\ isLoading
  /\ Commit(Render(fetchSitemapFail(Now)))
  /\ Event("fetchFail", NoArg)
  /\ Interrupt
  /\ NotLoaded

(* The change handler of the delay input; the handler itself refuses a     *)
(* change while processing, whether or not the input is disabled.          *)
HandleTimeDelayChange ==
  \E value \in DelayInputs :
    /\ Commit(Render(handleTimeDelayChange(Now, value)))
    /\ Event("delay", value)
    /\ Observe
    /\ NotLoaded

(* The control row is rendered only when urls.length > 0.                  *)
StartProcessing ==
  /\ Len(urls) > 0 /\ ~isProcessing
  /\ Commit(Render(startProcessing(Now)))
  /\ Event("start", NoArg)
  /\ Observe
  /\ NotLoaded

CancelDialog ==
  /\ showPermissionDialog
  /\ Commit(Render(cancelDialog(Now)))
  /\ Event("cancel", NoArg)
  /\ Observe
  /\ NotLoaded

ConfirmStart ==
  /\ showPermissionDialog
  /\ LET s == confirmStart(Now)
     IN /\ Commit(Render(s))
        /\ Event("confirm", NoArg)
        /\ cleanRun' = (~isProcessing /\ currentIndex = -1 /\ Len(urls) >= 1)
        /\ runVisits' = IF cleanRun' THEN Visit("confirm", s) ELSE <<>>
        /\ Confirmed

TogglePause ==
  /\ Len(urls) > 0 /\ isProcessing
  /\ Commit(Render(togglePause(Now)))
  /\ Event(IF isPaused THEN "resume" ELSE "pause", NoArg)
  /\ Interrupt
  /\ NotLoaded

ResetProcess ==
  /\ Len(urls) > 0
  /\ Commit(Render(resetProcess(Now)))
  /\ Event("reset", NoArg)
  /\ Interrupt
  /\ NotLoaded

(* A timeout expires after its delay: it is due together with the         *)
(* interval's tick of that second and may run just before or just after it. *)
StepTimerFire ==
  \E c \in timer :
    /\ elapsed >= c.delay - 1
    /\ LET s == processNextUrl([Now EXCEPT !.timer = timer \ {c}], c)
       IN /\ Commit(Render(s))
          /\ Event("timer", NoArg)
          /\ runVisits' = IF cleanRun THEN runVisits \o Visit("timer", s) ELSE runVisits
          /\ UNCHANGED cleanRun
          /\ NotLoaded

(* One tick of a 1000 ms interval.                                         *)
CountdownTick ==
  /\ countdownTimer > 0
  /\ elapsed < timeDelay
  /\ LET n == nextPageCountdown - 1
     IN Commit(Render([Now EXCEPT !.nextPageCountdown = IF n > 0 THEN n ELSE 0,
                                   !.elapsed = elapsed + 1]))
  /\ Event("tick", NoArg)
  /\ Observe
  /\ NotLoaded

Next ==
  \/ FileLoaded
  \/ HandleUrlSubmit
  \/ FetchOk
  \/ FetchFail
  \/ HandleTimeDelayChange
  \/ StartProcessing
  \/ CancelDialog
  \/ ConfirmStart
  \/ TogglePause
  \/ ResetProcess
  \/ StepTimerFire
  \/ CountdownTick

Spec == Init /\ [][Next]_vars

(* The browser runs a timer that is due: the timer events are weakly fair. *)
LiveSpec == Spec /\ WF_vars(StepTimerFire) /\ WF_vars(CountdownTick)

(* ---- the ETA effect alone, over a range of lists, indexes and delays ---- *)

EtaDelays == {20, 30, 45, 60, 1800, 3605}

(* A Running render whose ETA effect has not run yet: n records, the first *)
(* i + 1 of them visited.  With an empty list the index may be one that a  *)
(* failed fetch left behind.                                               *)
EtaInit ==
  \E n \in 0..EtaMaxLen :
    \E i \in (-1)..(EtaMaxLen - 1) :
      /\ (i <= n - 1 \/ n = 0)
      /\ urls = [k \in 1..n |-> [url |-> "a", visited |-> k <= i + 1]]
      /\ currentIndex = i
      /\ timeDelay \in EtaDelays
      /\ isProcessing = TRUE
      /\ isPaused = FALSE
      /\ isLoading = FALSE
      /\ error = ""
      /\ showPermissionDialog = FALSE
      /\ nextPageCountdown = 0
      /\ estimatedTimeLeft = ""
      /\ timer = {}
      /\ countdownTimer = 0
      /\ elapsed = 0
      /\ opened = <<>>
      /\ lastEvent = [name |-> "mount", index |-> i, arg |-> NoArg]
      /\ runVisits = <<>>
      /\ cleanRun = FALSE
      /\ awaitingConfirm = FALSE

(* The ETA effect runs for that render (isProcessing has just changed).    *)
EtaRecompute ==
  /\ lastEvent.name = "mount"
  /\ estimatedTimeLeft' =
       etaEffect([Now EXCEPT !.isProcessing = FALSE], Now).estimatedTimeLeft
  /\ Event("eta", NoArg)
  /\ UNCHANGED <<urls, isProcessing, currentIndex, isPaused, isLoading, error,
                 timeDelay, showPermissionDialog, nextPageCountdown, timer,
                 countdownTimer, elapsed, opened, runVisits, cleanRun,
                 awaitingConfirm>>

EtaNext == EtaRecompute

EtaSpec == EtaInit /\ [][EtaNext]_vars

(* ======================= the claims ======================= *)

LastVisited ==
  /\ Len(urls) > 0
  /\ currentIndex = Len(urls) - 1
  /\ At(urls, currentIndex).visited

NoTimerArmed == timer = {} /\ countdownTimer = 0

(* C1: once the last record is visited, the sequencer completes without a  *)
(* user action: when the last record is visited and nothing is left for    *)
(* the browser to run (no timer armed), isProcessing is false.             *)
C1_Completion == (LastVisited /\ NoTimerArmed) => ~isProcessing

(* C2: the visited flags form a prefix of the list: if record i is visited *)
(* then so is every record before it.                                      *)
C2_VisitedPrefix ==
  \A i \in 1..Len(urls) : urls[i].visited => \A j \in 1..i : urls[j].visited

C2_Witness == Len(urls) >= 2 /\ urls[2].visited

(* C3: in a run confirmed from Idle and not interrupted by pause, reset or *)
(* load, the k-th visiting event opens exactly record k-1 of the list: the *)
(* confirm step opens record 0, every expiry of the step timer opens the   *)
(* next record, and a step timer is armed exactly while a record is left,  *)
(* so the run ends with N visits and nothing armed.                        *)
C3_RunInOrder ==
  cleanRun =>
    /\ currentIndex \in 0..(Len(urls) - 1)
    /\ Len(runVisits) = currentIndex + 1
    /\ \A k \in 1..Len(runVisits) :
         runVisits[k] = [by |-> IF k = 1 THEN "confirm" ELSE "timer",
                         index |-> k - 1,
                         opened |-> <<urls[k].url>>]
    /\ \A k \in 1..Len(urls) : urls[k].visited <=> k <= Len(runVisits)
    /\ (timer = {} <=> currentIndex = Len(urls) - 1)
    /\ Cardinality(timer) <= 1

C3_Witness ==
  cleanRun /\ Len(urls) >= 2 /\ Len(runVisits) = Len(urls) /\ lastEvent.name = "timer"

(* C4: while paused the index does not advance and nothing is opened, and  *)
(* a resume re-arms the step timer and the countdown at the full delay.    *)
C4_PauseResume ==
  [][/\ isPaused => (currentIndex' <= currentIndex /\ opened' = <<>>)
     /\ (isPaused /\ isProcessing' /\ ~isPaused') =>
          (timer' # {} /\ countdownTimer' > 0 /\ nextPageCountdown' = timeDelay')]_vars

(* C4, where a record is left to visit: the same, and with no record left  *)
(* a resume arms nothing.                                                  *)
C4_PauseResumeRecordLeft ==
  [][/\ isPaused => (currentIndex' <= currentIndex /\ opened' = <<>>)
     /\ (isPaused /\ isProcessing' /\ ~isPaused') =>
          IF currentIndex' < Len(urls') - 1
          THEN /\ Cardinality(timer') = 1 /\ countdownTimer' = 1
               /\ nextPageCountdown' = timeDelay' /\ elapsed' = 0
          ELSE timer' = {} /\ countdownTimer' = 0]_vars

IsIdle(s) ==
  /\ \A k \in 1..Len(s.urls) : ~s.urls[k].visited
  /\ s.currentIndex = -1
  /\ ~s.isProcessing
  /\ ~s.isPaused
  /\ s.timer = {}
  /\ s.countdownTimer = 0
  /\ s.nextPageCountdown = 0
  /\ s.estimatedTimeLeft = ""

(* C5: reset yields Idle from every reachable state (flags cleared, index  *)
(* -1, not processing, not paused, nothing armed, countdown 0, ETA empty), *)
(* and a second reset leaves that state unchanged.                         *)
C5_ResetYieldsIdle ==
  /\ LET r == Render(resetProcess(Now))
     IN IsIdle(r) /\ RenderFrom(r, resetProcess(r)) = r
  /\ lastEvent.name = "reset" => (IsIdle(Now) /\ Render(resetProcess(Now)) = Now)

C5_Witness ==
  lastEvent.name = "reset" /\ lastEvent.index >= 1 /\ Len(urls) >= 2

(* C6: at most one step timer and one countdown interval are armed, only   *)
(* while processing, not paused and with a record left; a pause or a reset *)
(* leaves nothing armed, and an armed timer holds the values of the        *)
(* current render.                                                         *)
C6_TimerDiscipline ==
  /\ Cardinality(timer) <= 1
  /\ countdownTimer <= 1
  /\ (timer # {} \/ countdownTimer > 0) =>
       (isProcessing /\ ~isPaused /\ currentIndex < Len(urls) - 1)
  /\ lastEvent.name \in {"pause", "reset"} => NoTimerArmed
  /\ \A c \in timer :
       c.currentIndex = currentIndex /\ c.isPaused = isPaused /\ Len(c.urls) = Len(urls)

C6_Witness ==
  lastEvent.name = "pause" /\ lastEvent.index = 0 /\ Len(urls) >= 2 /\ elapsed > 0

(* C7: after a failed fetch the error is set, the list is empty and the    *)
(* sequencer is Idle.                                                      *)
C7_FailedFetchIdle ==
  lastEvent.name = "fetchFail" =>
    (error = FetchError /\ urls = <<>> /\ currentIndex = -1 /\ ~isProcessing)

(* C8: currentIndex is in [-1, urls.length - 1].                           *)
C8_IndexInRange == currentIndex \in (-1)..(Len(urls) - 1)

(* C9: every transition leaves currentIndex unchanged or adds 1 to it,     *)
(* except reset, which sets it to -1.                                      *)
C9_IndexStep ==
  [][\/ currentIndex' = currentIndex
     \/ currentIndex' = currentIndex + 1
     \/ (lastEvent'.name = "reset" /\ currentIndex' = -1)]_vars

(* C9, amended: every transition leaves currentIndex unchanged or adds 1   *)
(* to it (a confirm or a timer step), except reset and a completed load    *)
(* (file, or successful fetch), which set it to -1.                        *)
C9_IndexStepOrLoad ==
  [][\/ currentIndex' = currentIndex
     \/ (currentIndex' = currentIndex + 1 /\ lastEvent'.name \in {"confirm", "timer"})
     \/ (lastEvent'.name \in {"reset", "file", "fetchOk"} /\ currentIndex' = -1)]_vars

C9_Witness ==
  lastEvent.name \in {"file", "fetchOk"} /\ lastEvent.index >= 1 /\ currentIndex = -1

(* C10: delaySeconds is at least 20, and a delay input below 20 or not a   *)
(* number leaves the state unchanged.                                      *)
C10_DelayAtLeastMin ==
  /\ timeDelay >= MinDelay
  /\ \A v \in DelayInputs :
       (v.isNaN \/ v.n < MinDelay) => Render(handleTimeDelayChange(Now, v)) = Now

C10_Witness ==
  /\ lastEvent.name = "delay"
  /\ lastEvent.arg = Num(MinDelay - 1)
  /\ ~isProcessing
  /\ timeDelay = MinDelay

(* C11: a delay change attempted while processing leaves the whole state   *)
(* unchanged; a delay >= 20 entered while not processing is stored, and    *)
(* the step timer and countdown a run arms use the stored delay.           *)
C11_DelayFrame ==
  /\ \A v \in DelayInputs :
       isProcessing => Render(handleTimeDelayChange(Now, v)) = Now
  /\ \A v \in DelayInputs :
       (~isProcessing /\ ~v.isNaN /\ v.n >= MinDelay) =>
         Render(handleTimeDelayChange(Now, v)) = [Now EXCEPT !.timeDelay = v.n]
  /\ \A c \in timer : c.delay = timeDelay
  /\ (lastEvent.name = "confirm" /\ timer # {}) =>
       (nextPageCountdown = timeDelay /\ elapsed = 0)

C11_Witness ==
  /\ lastEvent.name = "delay"
  /\ lastEvent.arg = Num(MinDelay)
  /\ isProcessing
  /\ timeDelay = InitialTimeDelay
  /\ timer # {}

(* C11, second case: a run armed with a delay that was entered while Idle. *)
C11_WitnessNextRun ==
  /\ lastEvent.name = "confirm"
  /\ timeDelay = MinDelay
  /\ \E c \in timer : c.delay = MinDelay

(* C12: a confirm while the URL list is empty leaves the sequencer Idle:   *)
(* not processing, index -1, nothing opened, nothing armed.                *)
C12_EmptyStartStaysIdle ==
  (lastEvent.name = "confirm" /\ Len(urls) = 0) =>
    /\ ~isProcessing
    /\ ~isPaused
    /\ currentIndex = -1
    /\ opened = <<>>
    /\ NoTimerArmed
    /\ ~showPermissionDialog

(* The list was emptied while the dialog was open, and then confirmed.     *)
C12_Witness == lastEvent.name = "confirm" /\ Len(urls) = 0

(* C13: isProcessing becomes true only in the dialog's confirm; Start only *)
(* opens the dialog and Cancel only closes it, both leaving urls, index,   *)
(* isProcessing and isPaused alone; a confirm in Idle with a non-empty     *)
(* list visits record 0 in that same step.                                 *)
C13_ConfirmGate ==
  [][/\ (~isProcessing /\ isProcessing') => lastEvent'.name = "confirm"
     /\ lastEvent'.name = "start" =>
          (showPermissionDialog'
           /\ UNCHANGED <<urls, currentIndex, isProcessing, isPaused, opened>>)
     /\ lastEvent'.name = "cancel" =>
          (~showPermissionDialog'
           /\ UNCHANGED <<urls, currentIndex, isProcessing, isPaused, opened>>)
     /\ (lastEvent'.name = "confirm" /\ ~isProcessing /\ currentIndex = -1
           /\ Len(urls) > 0) =>
          /\ isProcessing'
          /\ currentIndex' = 0
          /\ opened' = <<urls[1].url>>
          /\ urls' = [urls EXCEPT ![1].visited = TRUE]]_vars

C13_Witness ==
  /\ lastEvent.name = "confirm"
  /\ lastEvent.index = -1
  /\ isProcessing
  /\ currentIndex = 0
  /\ opened # <<>>

(* C14: a completed load (file, or successful fetch) leaves exactly the    *)
(* records of the loaded document, in document order and all unvisited,    *)
(* with currentIndex -1; a file load also leaves the error empty.          *)
C14_LoadReplaces ==
  lastEvent.name \in {"file", "fetchOk"} =>
    /\ Len(urls) = Len(lastEvent.arg)
    /\ \A k \in 1..Len(urls) :
         urls[k] = [url |-> lastEvent.arg[k], visited |-> FALSE]
    /\ currentIndex = -1
    /\ lastEvent.name = "file" => error = ""
    /\ lastEvent.name = "fetchOk" => ~isLoading

(* A fetch that completed over a list with visited records.                *)
C14_Witness ==
  /\ lastEvent.name = "fetchOk"
  /\ lastEvent.index >= 1
  /\ Len(urls) >= 1

(* C19: isPaused implies isProcessing.                                     *)
C19_PausedImpliesProcessing == isPaused => isProcessing

C19_Witness == isPaused /\ isProcessing /\ lastEvent.name = "file"

Running == isProcessing /\ ~isPaused

(* C15: while the sequencer is not Running, the countdown is 0 and the     *)
(* ETA is the empty string.                                                *)
C15_BlankWhenNotRunning ==
  ~Running => (nextPageCountdown = 0 /\ estimatedTimeLeft = "")

(* C17: a step that opens a URL opens the URL of the record that is        *)
(* current after the step, in the list as it is after the step.            *)
C17_OpensCurrentRecord ==
  opened # <<>> =>
    /\ currentIndex \in 0..(Len(urls) - 1)
    /\ opened = <<At(urls, currentIndex).url>>

(* C18: a list loaded while the sequencer was processing has no visited    *)
(* record until the user confirms Start again.                             *)
C18_NoVisitBeforeConfirm ==
  awaitingConfirm => \A k \in 1..Len(urls) : ~urls[k].visited

(* The seconds that remain: the records after the current one, timeDelay each. *)
RemainingSeconds == (Len(urls) - (currentIndex + 1)) * timeDelay

Components(T) ==
  <<[n |-> T \div 3600, unit |-> "h"],
    [n |-> (T % 3600) \div 60, unit |-> "m"],
    [n |-> T % 60, unit |-> "s"]>>

RECURSIVE DropLeadingZeros(_)
DropLeadingZeros(cs) ==
  IF cs = <<>> THEN <<>>
  ELSE IF Head(cs).n = 0 THEN DropLeadingZeros(Tail(cs)) ELSE cs

IsPositive(c) == c.n > 0

RECURSIVE JoinComponents(_)
JoinComponents(cs) ==
  IF cs = <<>> THEN ""
  ELSE IF Len(cs) = 1 THEN ToString(cs[1].n) \o cs[1].unit
  ELSE ToString(cs[1].n) \o cs[1].unit \o " " \o JoinComponents(Tail(cs))

(* C16: while Running the ETA is the hours, minutes and seconds of the     *)
(* remaining seconds, without the zero-valued leading components, joined   *)
(* by spaces.                                                              *)
C16_EtaLeadingZerosDropped ==
  (Running /\ lastEvent.name # "mount" /\ RemainingSeconds >= 0) =>
    estimatedTimeLeft = JoinComponents(DropLeadingZeros(Components(RemainingSeconds)))

(* C16, amended: while Running the ETA is the hours, minutes and seconds   *)
(* of the remaining seconds, without every component that is not positive  *)
(* (leading or not), joined by spaces; empty when nothing remains.         *)
C16_EtaPositiveComponents ==
  (Running /\ lastEvent.name # "mount") =>
    estimatedTimeLeft =
      IF RemainingSeconds <= 0 THEN ""
      ELSE JoinComponents(SelectSeq(Components(RemainingSeconds), IsPositive))

(* An ETA with hours and seconds and no minutes between them.              *)
C16_Witness ==
  /\ lastEvent.name = "eta"
  /\ RemainingSeconds = 3605
  /\ estimatedTimeLeft = "1h 5s"

(* The example of the claim.                                               *)
C16_WitnessExample ==
  /\ lastEvent.name = "eta"
  /\ RemainingSeconds = 90
  /\ estimatedTimeLeft = "1m 30s"

====
